---- MODULE Spec2Model ----
(***************************************************************************)
(* Model of the GMK87 display driver (src/reference.py): the Keyboard      *)
(* object (configuration blob, dirty flag, command channel), the upload    *)
(* sequencer and the main() program around them.                           *)
(*                                                                         *)
(* Byte sequences are TLA+ sequences, so Python index i is index i+1 here. *)
(* Every request written to the transport is kept as the 64-byte frame     *)
(* send_command builds; the claims read command id, offset and payload     *)
(* back out of those frames.                                               *)
(***************************************************************************)
EXTENDS Integers, Sequences, FiniteSets, TLC

VARIABLES
    config,               \* Keyboard.config: the in-memory blob (<<>> = none held)
    config_needs_update,  \* Keyboard.config_needs_update: the dirty flag
    sent,                 \* request frames written to the transport by the last operation
    rcvd,                 \* payloads send_command returned during the last operation
    ok,                   \* the last operation returned (TRUE) or raised (FALSE)
    lastOp,               \* name of the last operation called
    loaded,               \* the blob as last obtained whole (loaded, or installed by reset)
    session,              \* device-side begin/commit bracket: "closed" or "open"
    pc,                   \* main(): the statement about to run or the exit taken ("api" outside main)
    args,                 \* main(): the parsed command line and decoded animations
    usb,                  \* the transport: "absent", "claimed", "released"
    exitcode,             \* main(): -1 while running, else the process exit code
    response,             \* send_command: the frame the last usb.read() returned (<<>> = none yet)
    synced,               \* the blob most recently loaded from or written back to the device
                          \* (Untracked in the specifications that do not follow it)
    stream_pos,           \* upload_frames: pos, the bytes of the stream sent so far
    stream_total,         \* upload_frames: total, the length of the stream
    last_progress,        \* upload_frames: the percentage last printed (-1 = none)
    printed               \* upload_frames: the percentages printed, in order

vars == <<config, config_needs_update, sent, rcvd, ok, lastOp, loaded, session, pc, args, usb, exitcode,
          response, synced, stream_pos, stream_total, last_progress, printed>>

kbvars == <<config, config_needs_update, sent, rcvd, ok, lastOp, loaded, session, synced>>

mainvars == <<pc, args, usb, exitcode>>

mainvars_but_pc == <<args, usb, exitcode>>

\* the locals of a send_command call and of the chunk loop of upload_frames
callvars == <<response, stream_pos, stream_total, last_progress, printed>>

----------------------------------------------------------------------------
(* Program constants *)

DATE_OFFSET == 35

DELAY_OFFSET == 43

FRAMES_1_OFFSET == 34

FRAMES_2_OFFSET == 46

DEFAULT_ANIMATION_DELAY_MS == 100

\* send_command: the largest payload one request frame carries
MaxPayload == 56

\* send_command: the length of a request frame
FrameLen == 64

\* main: the largest total frame count accepted
MaxTotalFrames == 90

\* load_config: the probe and read loops
NumProbes == 9

NumReads == 12

\* Keyboard.reset: the factory blob
FactoryConfig ==
    << 0, 8, 9, 2, 0, 1, 255, 255, 255, 0, 0, 0, 0, 0, 0, 0, 0, 0, 0, 0, 255, 0, 0, 0,
       0, 0, 0, 255, 0, 9, 2, 255, 0, 0, 1, 85, 67, 21, 2, 20, 16, 37, 0, 44, 1, 0, 4, 0 >>

----------------------------------------------------------------------------
(* Bounds of the model *)

\* stand-ins for DISPLAY_WIDTH x DISPLAY_HEIGHT (240 x 135) and the 0x8000
\* alignment of encode_frame, scaled so that a whole upload fits in a state
DisplayWidth == 7

DisplayHeight == 2

FrameAlign == 4

\* the longest animation the API-level upload is given
MaxFrames == 2

\* a transport failure strikes one of the first MaxFailIndex calls of an
\* operation, or its last call
MaxFailIndex == 2

----------------------------------------------------------------------------
(* Generic helpers *)

\* s[1] + ... + s[n]
RECURSIVE SumTo(_, _)
SumTo(s, n) == IF n = 0 THEN 0 ELSE s[n] + SumTo(s, n - 1)

Sum(s) == SumTo(s, Len(s))

RECURSIVE Flatten(_)
Flatten(ss) == IF ss = <<>> THEN <<>> ELSE Head(ss) \o Flatten(Tail(ss))

Zeros(n) == [i \in 1..n |-> 0]

Min(a, b) == IF a < b THEN a ELSE b

Max(a, b) == IF a > b THEN a ELSE b

\* f itself. TLC keeps a function constructor unevaluated and works its body
\* out again at every application; comparing it makes TLC tabulate it once.
Tabulated(f) == IF f = f THEN f ELSE f

\* cfg[off] = v of a Python list (off is 0-based)
SetByte(cfg, off, v) == [cfg EXCEPT ![off + 1] = v]

----------------------------------------------------------------------------
(* Command channel: Keyboard.send_command *)

Cmd(id, data, pos) == [id |-> id, data |-> data, pos |-> pos]

\* the argument checks without the one on the payload length
ValidCommand_anyLength(c) == 0 < c.id /\ c.id <= 255

\* the argument checks at the top of send_command
ValidCommand(c) == 0 < c.id /\ c.id <= 255 /\ Len(c.data) <= MaxPayload

\* the request frame with only the low byte of the checksum stored
BuildFrame_byteChecksum(c) ==
    LET n == Len(c.data)
        body == << c.id, n, c.pos % 256, (c.pos \div 256) % 256, (c.pos \div 65536) % 256 >>
                \o c.data \o Zeros(MaxPayload - n)
        checksum == Sum(body)
    IN << 4, checksum % 256, 0 >> \o body

\* the request frame with a 16-bit offset
BuildFrame_twoByteOffset(c) ==
    LET n == Len(c.data)
        body == << c.id, n, c.pos % 256, (c.pos \div 256) % 256, 0 >>
                \o c.data \o Zeros(MaxPayload - n)
        checksum == Sum(body)
    IN << 4, checksum % 256, (checksum \div 256) % 256 >> \o body

\* the 64-byte request frame of a valid command
BuildFrame(c) ==
    LET n == Len(c.data)
        body == << c.id, n, c.pos % 256, (c.pos \div 256) % 256, (c.pos \div 65536) % 256 >>
                \o c.data \o Zeros(MaxPayload - n)
        checksum == Sum(body)
    IN << 4, checksum % 256, (checksum \div 256) % 256 >> \o body

\* reading a request frame back
FrameId(f) == f[4]

FramePos(f) == f[6] + 256 * f[7] + 65536 * f[8]

FramePayload(f) == SubSeq(f, 9, 8 + f[5])

FrameIds(frames) == [i \in 1..Len(frames) |-> FrameId(frames[i])]

\* USBDevice.read(size=8): a response frame is 8 bytes, of which send_command
\* returns bytes 4 onward
RespLen == 4

ZeroResp == Zeros(RespLen)

\* index of the first command of plan that send_command rejects (Len + 1: none)
RECURSIVE FirstInvalid(_, _)
FirstInvalid(plan, i) ==
    IF i > Len(plan) \/ ~ValidCommand(plan[i]) THEN i ELSE FirstInvalid(plan, i + 1)

\* How a sequence of send_command calls can end: <<n, kind>> with n the number
\* of calls that returned and kind what stopped call n+1:
\*   "ok"      all calls returned
\*   "invalid" call n+1 raised ValueError before writing (lines 267-270)
\*   "write"   usb.write of call n+1 raised (line 291)
\*   "read"    call n+1 was written and usb.read raised, e.g. timed out (line 294)
Outcomes(plan) ==
    LET bad == FirstInvalid(plan, 1)
        last == IF bad > Len(plan) THEN {<<Len(plan), "ok">>} ELSE {<<bad - 1, "invalid">>}
        pts == { n \in 0..(Min(bad - 1, Len(plan)) - 1) : n < MaxFailIndex \/ n = Len(plan) - 1 }
    IN  last \cup (pts \X {"write", "read"})

\* the request frames of the commands of plan
RequestFrames(plan) == [i \in 1..Len(plan) |-> BuildFrame(plan[i])]

\* the calls with the last command sent all the same after one has raised
Run_closes(frames, resp, out) ==
    LET n == out[1]
        written == IF out[2] = "read" THEN n + 1 ELSE n
    IN  [ sent |-> IF out[2] = "ok" THEN SubSeq(frames, 1, written)
                   ELSE Append(SubSeq(frames, 1, written), frames[Len(frames)]),
          rcvd |-> SubSeq(resp, 1, n),
          ok   |-> out[2] = "ok" ]

\* The calls run in order until one raises: frames[i] is the request of call i,
\* resp[i] the payload the device answers it with.
Run(frames, resp, out) ==
    LET n == out[1]
        written == IF out[2] = "read" THEN n + 1 ELSE n
    IN  [ sent |-> SubSeq(frames, 1, written),
          rcvd |-> SubSeq(resp, 1, n),
          ok   |-> out[2] = "ok" ]

\* the effect of the written commands on the device-side session bracket
SessionStep(s, id) ==
    CASE id = 1 -> "open"
      [] id = 2 -> "closed"
      [] OTHER -> s

\* the bracket after the first n of frames
RECURSIVE SessionUpTo(_, _, _)
SessionUpTo(s, frames, n) ==
    IF n = 0 THEN s ELSE SessionStep(SessionUpTo(s, frames, n - 1), FrameId(frames[n]))

SessionAfter(s, frames) == SessionUpTo(s, frames, Len(frames))

----------------------------------------------------------------------------
(* Configuration store *)

\* the blobs the device may hold: 48 bytes, different at every offset
NumDeviceBlobs == 2

ConfigLen == 48

DeviceBlobs == { [i \in 1..ConfigLen |-> (i * k) % 256] : k \in 1..NumDeviceBlobs }

\* load_config: the commands it sends
LoadPlan ==
    << Cmd(1, <<>>, 0) >>
    \o [i \in 1..NumProbes |-> Cmd(3, Zeros(4), (i - 1) * 4)]
    \o << Cmd(3, Zeros(1), 36) >>
    \o << Cmd(2, <<>>, 0) >>
    \o [i \in 1..NumReads |-> Cmd(5, Zeros(4), (i - 1) * 4)]

LoadFrames == Tabulated(RequestFrames(LoadPlan))

\* what the device answers them with when it holds dev
LoadResponsesOf ==
    Tabulated([dev \in DeviceBlobs |->
        [i \in 1..(NumProbes + 3) |-> ZeroResp]
        \o [i \in 1..NumReads |-> SubSeq(dev, (i - 1) * RespLen + 1, i * RespLen)]])

LoadResponses(dev) == LoadResponsesOf[dev]

\* a keyboard state record, as the operations below return it
Kb(cfg, dirty, r, base) ==
    [config |-> cfg, dirty |-> dirty, sent |-> r.sent, rcvd |-> r.rcvd, ok |-> r.ok,
     loaded |-> base]

NoTraffic == [sent |-> <<>>, rcvd |-> <<>>, ok |-> TRUE]

\* load_config that leaves the dirty flag as it was
load_config_keeps_flag(dev, out) ==
    LET r == Run(LoadFrames, LoadResponses(dev), out)
        buffer == Flatten(SubSeq(r.rcvd, NumProbes + 4, NumProbes + 3 + NumReads))
    IN  IF r.ok THEN Kb(buffer, config_needs_update, r, buffer)
        ELSE Kb(config, config_needs_update, r, loaded)

\* load_config
load_config(dev, out) ==
    LET r == Run(LoadFrames, LoadResponses(dev), out)
        buffer == Flatten(SubSeq(r.rcvd, NumProbes + 4, NumProbes + 3 + NumReads))
    IN  IF r.ok THEN Kb(buffer, FALSE, r, buffer)
        ELSE Kb(config, config_needs_update, r, loaded)

\* "if not self.config: self.load_config()" at the top of every setter
EnsureLoaded(dev, out) ==
    IF config = <<>> THEN load_config(dev, out)
    ELSE Kb(config, config_needs_update, NoTraffic, loaded)

\* the choices EnsureLoaded depends on
LoadOutcomes == Outcomes(LoadPlan)

LoadChoices == IF config = <<>> THEN DeviceBlobs \X LoadOutcomes
               ELSE { <<CHOOSE d \in DeviceBlobs : TRUE, <<0, "ok">> >> }

\* _int_to_bcd
BcdValid(n) == 0 <= n /\ n <= 99

int_to_bcd(n) == (n \div 10) * 16 + (n % 10)

\* set_datetime, lines 340-346: the seven assignments in order
ClockFields(now) ==
    << [v |-> now.second, bcd |-> TRUE], [v |-> now.minute, bcd |-> TRUE],
       [v |-> now.hour, bcd |-> TRUE], [v |-> now.weekday, bcd |-> FALSE],
       [v |-> now.day, bcd |-> TRUE], [v |-> now.month, bcd |-> TRUE],
       [v |-> now.year - 2000, bcd |-> TRUE] >>

\* assignments k.. of them; the first _int_to_bcd that raises ends the run
RECURSIVE WriteFields(_, _, _)
WriteFields(cfg, fields, k) ==
    IF k > Len(fields) THEN [config |-> cfg, ok |-> TRUE]
    ELSE IF fields[k].bcd /\ ~BcdValid(fields[k].v) THEN [config |-> cfg, ok |-> FALSE]
    ELSE WriteFields(
             SetByte(cfg, DATE_OFFSET + k - 1,
                     IF fields[k].bcd THEN int_to_bcd(fields[k].v) ELSE fields[k].v),
             fields, k + 1)

WriteClock(cfg, now) == WriteFields(cfg, ClockFields(now), 1)

\* the clamp without its lower limit
ClampDelay_noFloor(ms) == Min(ms, 65535)

\* set_animation_delay, lines 360-363
ClampDelay(ms) == Max(60, Min(ms, 65535))

\* the high byte of the delay written one offset too far
WriteDelay_shifted(cfg, ms) ==
    LET v == ClampDelay(ms)
    IN  SetByte(SetByte(cfg, DELAY_OFFSET, v % 256), DELAY_OFFSET + 2, (v \div 256) % 256)

WriteDelay(cfg, ms) ==
    LET v == ClampDelay(ms)
    IN  SetByte(SetByte(cfg, DELAY_OFFSET, v % 256), DELAY_OFFSET + 1, (v \div 256) % 256)

\* set_frame_count, lines 378-379
WriteCounts(cfg, a, b) == SetByte(SetByte(cfg, FRAMES_1_OFFSET, a), FRAMES_2_OFFSET, b)

\* set_datetime
set_datetime(now, dev, out) ==
    LET p == EnsureLoaded(dev, out)
        w == WriteClock(p.config, now)
    IN  IF ~p.ok THEN p
        ELSE [p EXCEPT !.config = w.config, !.ok = w.ok,
                       !.dirty = IF w.ok THEN TRUE ELSE p.dirty]

\* set_animation_delay
set_animation_delay(ms, dev, out) ==
    LET p == EnsureLoaded(dev, out)
    IN  IF ~p.ok THEN p
        ELSE [p EXCEPT !.config = WriteDelay(p.config, ms), !.dirty = TRUE]

\* set_frame_count that forgets to mark the blob dirty
set_frame_count_unmarked(a, b, dev, out) ==
    LET p == EnsureLoaded(dev, out)
    IN  IF ~p.ok THEN p
        ELSE [p EXCEPT !.config = WriteCounts(p.config, a, b)]

\* set_frame_count
set_frame_count(a, b, dev, out) ==
    LET p == EnsureLoaded(dev, out)
    IN  IF ~p.ok THEN p
        ELSE [p EXCEPT !.config = WriteCounts(p.config, a, b), !.dirty = TRUE]

\* update_config: the commands of the write-back
UpdatePlan(cfg) == << Cmd(1, <<>>, 0), Cmd(6, cfg, 0), Cmd(2, <<>>, 0) >>

UpdateResponses == << ZeroResp, ZeroResp, ZeroResp >>

\* update_config that never clears the dirty flag
update_config_stays_dirty(out) ==
    IF ~config_needs_update THEN Kb(config, config_needs_update, NoTraffic, loaded)
    ELSE Kb(config, config_needs_update,
            Run(RequestFrames(UpdatePlan(config)), UpdateResponses, out), loaded)

\* update_config that clears the dirty flag before it sends anything
update_config_clears_first(out) ==
    IF ~config_needs_update THEN Kb(config, config_needs_update, NoTraffic, loaded)
    ELSE Kb(config, FALSE, Run(RequestFrames(UpdatePlan(config)), UpdateResponses, out), loaded)

\* update_config
update_config(out) ==
    IF ~config_needs_update THEN Kb(config, config_needs_update, NoTraffic, loaded)
    ELSE LET r == Run(RequestFrames(UpdatePlan(config)), UpdateResponses, out)
         IN  Kb(config, IF r.ok THEN FALSE ELSE config_needs_update, r, loaded)

UpdateChoices == IF config_needs_update THEN Outcomes(UpdatePlan(config)) ELSE { <<0, "ok">> }

\* the re-arm sequence without its closing command 2
RearmPlan_unclosed == << Cmd(35, <<>>, 0), Cmd(1, <<>>, 0) >>

\* reset: the commands after the write-back
RearmPlan == << Cmd(35, <<>>, 0), Cmd(1, <<>>, 0), Cmd(2, <<>>, 0) >>

\* the blob of reset without the call of set_frame_count(0, 0)
ResetConfig_keepsCounts(now) ==
    WriteDelay(WriteClock(FactoryConfig, now).config, DEFAULT_ANIMATION_DELAY_MS)

\* reset: the blob it writes back
ResetConfig(now) ==
    WriteCounts(WriteDelay(WriteClock(FactoryConfig, now).config, DEFAULT_ANIMATION_DELAY_MS), 0, 0)

ResetPlan(now) == UpdatePlan(ResetConfig(now)) \o RearmPlan

\* datetime.datetime.now(): a time of day and one past the BCD year range
Clocks ==
    { [second |-> 59, minute |-> 7, hour |-> 23, weekday |-> 2, day |-> 3, month |-> 11, year |-> 2026],
      [second |-> 5, minute |-> 6, hour |-> 7, weekday |-> 5, day |-> 1, month |-> 1, year |-> 2100] }

\* reset, for every time of day: the clock assignments, the blob, the requests
\* and how they can end
ResetTable ==
    Tabulated([now \in Clocks |->
        [ clock    |-> WriteClock(FactoryConfig, now),
          config   |-> ResetConfig(now),
          frames   |-> RequestFrames(ResetPlan(now)),
          outcomes |-> Outcomes(ResetPlan(now)) ]])

ResetChoices(now) ==
    IF ResetTable[now].clock.ok THEN ResetTable[now].outcomes ELSE { <<0, "invalid">> }

\* reset
reset(now, out) ==
    LET t == ResetTable[now]
        r == Run(t.frames, [i \in 1..6 |-> ZeroResp], out)
    IN  IF ~t.clock.ok
        THEN Kb(t.clock.config, TRUE, [sent |-> <<>>, rcvd |-> <<>>, ok |-> FALSE], FactoryConfig)
        ELSE Kb(t.config, Len(r.rcvd) < 3, r, FactoryConfig)

----------------------------------------------------------------------------
(* Frame encoder and upload sequencer *)

\* encode_frame, line 403: the encoded length, a multiple of the alignment
FrameSize == ((DisplayWidth * DisplayHeight * 2 + FrameAlign - 1) \div FrameAlign) * FrameAlign

\* encode_frame, lines 407-410: the RGB565 value of a pixel
Rgb565(px) == ((px[1] \div 8) % 32) * 2048 + ((px[2] \div 4) % 64) * 32 + ((px[3] \div 8) % 32)

\* encode_frame
encode_frame(frame) ==
    [i \in 1..FrameSize |->
        IF i > 2 * Len(frame) THEN 0
        ELSE LET val == Rgb565(frame[(i + 1) \div 2])
             IN  IF i % 2 = 1 THEN (val \div 256) % 256 ELSE val % 256]

\* a processed frame: DisplayWidth x DisplayHeight pixels, row-major
NumFramePatterns == 2

Frame(c) ==
    [i \in 1..(DisplayWidth * DisplayHeight) |->
        << (i * 8 * (c + 1)) % 256, (i * 4 + c) % 256, (c * 100) % 256 >>]

\* animations: one to MaxFrames frames (Animation.__init__ raises on none),
\* no two consecutive frames alike
Animations ==
    { [i \in 1..n |-> Frame(c + i)] : n \in 1..MaxFrames, c \in 0..(NumFramePatterns - 1) }

\* upload_frames, lines 428-432: the stream, first animation then second
EncodeAll(anim) == Flatten([i \in 1..Len(anim) |-> encode_frame(anim[i])])

\* the stream with the second animation ahead of the first
UploadData_swapped(first, second) == EncodeAll(second) \o EncodeAll(first)

UploadData(first, second) == EncodeAll(first) \o EncodeAll(second)

\* the chunk loop with offsets that start again at every frame
RECURSIVE ChunkLoop_perFrame(_, _)
ChunkLoop_perFrame(data, pos) ==
    IF pos < Len(data)
    THEN LET size == Min(MaxPayload, Len(data) - pos)
         IN  << Cmd(33, SubSeq(data, pos + 1, pos + size), pos % FrameSize) >>
             \o ChunkLoop_perFrame(data, pos + size)
    ELSE <<>>

\* upload_frames, lines 440-446: the chunk loop from position pos (0-based)
RECURSIVE ChunkLoop(_, _)
ChunkLoop(data, pos) ==
    IF pos < Len(data)
    THEN LET size == Min(MaxPayload, Len(data) - pos)
         IN  << Cmd(33, SubSeq(data, pos + 1, pos + size), pos) >> \o ChunkLoop(data, pos + size)
    ELSE <<>>

\* upload_frames: the commands it sends
UploadPlan(data) ==
    << Cmd(35, <<>>, 0), Cmd(1, <<>>, 0) >> \o ChunkLoop(data, 0) \o << Cmd(2, <<>>, 0) >>

\* the pairs of animations upload_frames is called with
UploadPairs == Animations \X Animations

\* the requests of upload_frames for every pair of animations
UploadRequests ==
    Tabulated([p \in UploadPairs |-> RequestFrames(UploadPlan(UploadData(p[1], p[2])))])

\* upload_frames
upload_frames(first, second, out) ==
    LET frames == UploadRequests[<<first, second>>]
    IN  Kb(config, config_needs_update, Run(frames, [i \in 1..Len(frames) |-> ZeroResp], out), loaded)

\* how upload_frames can end: no command of it is ever invalid
UploadOutcomes(first, second) ==
    LET n == Len(UploadRequests[<<first, second>>])
    IN  {<<n, "ok">>} \cup ({ k \in 0..(n - 1) : k < MaxFailIndex \/ k = n - 1 } \X {"write", "read"})

----------------------------------------------------------------------------
(* The Keyboard object driven through its public methods *)

\* arguments of set_animation_delay: below, inside and above the clamp
Delays == {10, 1000, 70000}

\* arguments of set_frame_count
FrameCounts == { <<1, MaxFrames>>, <<MaxFrames, 1>> }

Call(op, arg) == [op |-> op, arg |-> arg]

\* no blob is a sequence of one negative number
Untracked == << -1 >>

\* The blob the device and the program last agreed on, once a call has ended in
\* r: load_config (also inside a setter) has read the whole blob from the
\* device, or the write-back of update_config (also inside reset) has been
\* answered through its closing command 2.
Synced(r, call) ==
    CASE synced = Untracked -> synced
      [] call.op = "load_config" /\ r.ok -> r.config
      [] call.op \in {"set_datetime", "set_animation_delay", "set_frame_count"}
             /\ Len(r.rcvd) = Len(LoadPlan) -> r.loaded
      [] call.op = "update_config" /\ r.ok /\ r.sent # <<>> -> r.config
      [] call.op = "reset" /\ Len(r.rcvd) >= 3 -> r.config
      [] OTHER -> synced

\* a method call ends in the state r
Apply(r, call) ==
    /\ config' = r.config
    /\ config_needs_update' = r.dirty
    /\ sent' = r.sent
    /\ rcvd' = r.rcvd
    /\ ok' = r.ok
    /\ loaded' = r.loaded
    /\ lastOp' = call
    /\ session' = SessionAfter(session, r.sent)
    /\ synced' = Synced(r, call)
    /\ UNCHANGED callvars

Load ==
    /\ pc = "api"
    /\ \E dev \in DeviceBlobs, out \in LoadOutcomes :
           Apply(load_config(dev, out), Call("load_config", <<>>))
    /\ UNCHANGED mainvars

SetDatetime ==
    /\ pc = "api"
    /\ \E now \in Clocks, ch \in LoadChoices :
           Apply(set_datetime(now, ch[1], ch[2]), Call("set_datetime", now))
    /\ UNCHANGED mainvars

SetAnimationDelay ==
    /\ pc = "api"
    /\ \E ms \in Delays, ch \in LoadChoices :
           Apply(set_animation_delay(ms, ch[1], ch[2]), Call("set_animation_delay", ms))
    /\ UNCHANGED mainvars

SetFrameCount ==
    /\ pc = "api"
    /\ \E c \in FrameCounts, ch \in LoadChoices :
           Apply(set_frame_count(c[1], c[2], ch[1], ch[2]), Call("set_frame_count", c))
    /\ UNCHANGED mainvars

UpdateConfig ==
    /\ pc = "api"
    /\ \E out \in UpdateChoices : Apply(update_config(out), Call("update_config", <<>>))
    /\ UNCHANGED mainvars

Reset ==
    /\ pc = "api"
    /\ \E now \in Clocks : \E out \in ResetChoices(now) :
           Apply(reset(now, out), Call("reset", now))
    /\ UNCHANGED mainvars

\* upload_frames with animations drawn from anims
UploadFramesOf(anims) ==
    /\ pc = "api"
    /\ \E first \in anims, second \in anims :
          \E out \in UploadOutcomes(first, second) :
              Apply(upload_frames(first, second, out), Call("upload_frames", <<first, second>>))
    /\ UNCHANGED mainvars

\* no send_command call and no upload loop has run yet
NoCall ==
    /\ response = <<>>
    /\ synced = Untracked
    /\ stream_pos = 0
    /\ stream_total = 0
    /\ last_progress = -1
    /\ printed = <<>>

\* Keyboard.__init__ on a claimed device
Init ==
    /\ config = <<>>
    /\ config_needs_update = FALSE
    /\ sent = <<>>
    /\ rcvd = <<>>
    /\ ok = TRUE
    /\ lastOp = Call("init", <<>>)
    /\ loaded = <<>>
    /\ session = "closed"
    /\ pc = "api"
    /\ args = <<>>
    /\ usb = "claimed"
    /\ exitcode = -1
    /\ NoCall

Next ==
    \/ Load
    \/ SetDatetime
    \/ SetAnimationDelay
    \/ SetFrameCount
    \/ UpdateConfig
    \/ Reset

Spec == Init /\ [][Next]_vars

\* the upload sequencer alone
UploadFrames == UploadFramesOf(Animations)

NextUpload == UploadFrames

SpecUpload == Init /\ [][NextUpload]_vars

\* every operation that opens a session, on single-frame animations
ShortAnimations == { a \in Animations : Len(a) = 1 }

UploadShort == UploadFramesOf(ShortAnimations)

NextSessions ==
    \/ Load
    \/ SetFrameCount
    \/ UpdateConfig
    \/ Reset
    \/ UploadShort

SpecSessions == Init /\ [][NextSessions]_vars

\* upload_frames on animations of MaxFrames frames, any one command failing
LongAnimations == { a \in Animations : Len(a) = MaxFrames }

UploadOutcomesAll(first, second) ==
    LET n == Len(UploadRequests[<<first, second>>])
    IN  {<<n, "ok">>} \cup ((0..(n - 1)) \X {"write", "read"})

UploadInterrupted ==
    /\ pc = "api"
    /\ \E first \in LongAnimations, second \in LongAnimations :
          \E out \in UploadOutcomesAll(first, second) :
              Apply(upload_frames(first, second, out), Call("upload_frames", <<first, second>>))
    /\ UNCHANGED mainvars

NextFailures ==
    \/ Load
    \/ UpdateConfig
    \/ Reset
    \/ UploadInterrupted

SpecFailures == Init /\ [][NextFailures]_vars

\* set_animation_delay over arguments on both sides of either limit
DelayInputs == {-1, 0, 10, 59, 60, 61, 1000, 65535, 65536, 70000}

SetAnyDelay ==
    /\ pc = "api"
    /\ \E ms \in DelayInputs, ch \in LoadChoices :
           Apply(set_animation_delay(ms, ch[1], ch[2]), Call("set_animation_delay", ms))
    /\ UNCHANGED mainvars

NextDelay ==
    \/ Load
    \/ SetAnyDelay
    \/ UpdateConfig

SpecDelay == Init /\ [][NextDelay]_vars

\* Keyboard.__init__, with the synced blob followed from here on
InitSync ==
    /\ config = <<>>
    /\ config_needs_update = FALSE
    /\ sent = <<>>
    /\ rcvd = <<>>
    /\ ok = TRUE
    /\ lastOp = Call("init", <<>>)
    /\ loaded = <<>>
    /\ session = "closed"
    /\ pc = "api"
    /\ args = <<>>
    /\ usb = "claimed"
    /\ exitcode = -1
    /\ response = <<>>
    /\ synced = <<>>
    /\ stream_pos = 0
    /\ stream_total = 0
    /\ last_progress = -1
    /\ printed = <<>>

NextSync ==
    \/ Load
    \/ SetDatetime
    \/ SetFrameCount
    \/ UpdateConfig
    \/ Reset

SpecSync == InitSync /\ [][NextSync]_vars

----------------------------------------------------------------------------
(* main() *)

\* an animation of n frames
LongAnimation(n) == [i \in 1..n |-> Frame(i % NumFramePatterns)]

\* an image file Animation() raises on: missing, or without a usable frame
BadFile == <<>>

\* image files that decode
AnimA == [i \in 1..MaxFrames |-> Frame(i)]

AnimB == [i \in 1..1 |-> Frame(1)]

Arguments(r, t, f, s, ms) == [reset |-> r, time_only |-> t, first |-> f, second |-> s, ms |-> ms]

\* the command lines main is run with
MainArgs ==
    { Arguments(TRUE, FALSE, BadFile, BadFile, 100),
      Arguments(TRUE, TRUE, AnimA, AnimB, 100),
      Arguments(FALSE, TRUE, BadFile, BadFile, 100),
      Arguments(FALSE, FALSE, AnimA, AnimB, 100),
      Arguments(FALSE, FALSE, AnimB, AnimA, 10),
      Arguments(FALSE, FALSE, BadFile, AnimB, 100),
      Arguments(FALSE, FALSE, AnimA, BadFile, 100),
      Arguments(FALSE, FALSE, LongAnimation(80), LongAnimation(20), 100),
      Arguments(FALSE, FALSE, LongAnimation(MaxTotalFrames), AnimB, 100) }

\* line 506: the arguments are parsed, nothing else has happened
InitMain ==
    /\ config = <<>>
    /\ config_needs_update = FALSE
    /\ sent = <<>>
    /\ rcvd = <<>>
    /\ ok = TRUE
    /\ lastOp = Call("init", <<>>)
    /\ loaded = <<>>
    /\ session = "closed"
    /\ pc = "connect"
    /\ args \in MainArgs
    /\ usb = "absent"
    /\ exitcode = -1
    /\ NoCall

\* sys.exit(code), or the end of main, or an exception nobody catches
Exit(how, code) == pc' = how /\ exitcode' = code

\* lines 511-517: USBDevice() claims the device, or raises and main exits 1
Connect ==
    /\ pc = "connect"
    /\ \/ /\ usb' = "claimed"
          /\ pc' = IF args.reset THEN "reset" ELSE IF args.time_only THEN "time_set" ELSE "images"
          /\ exitcode' = exitcode
       \/ /\ usb' = "absent"
          /\ Exit("exit_connect", 1)
    /\ UNCHANGED <<kbvars, args, callvars>>

\* a Keyboard method called by main: on return main goes on at next, an
\* exception ends the process with a traceback
MainCall(r, call, next) ==
    /\ Apply(r, call)
    /\ IF r.ok THEN pc' = next /\ exitcode' = exitcode ELSE Exit("exit_crash", 1)
    /\ UNCHANGED <<args, usb>>

\* line 520
MainReset ==
    /\ pc = "reset"
    /\ \E now \in Clocks : \E out \in ResetChoices(now) :
           MainCall(reset(now, out), Call("reset", now), "close")

\* line 525
MainTimeSet ==
    /\ pc = "time_set"
    /\ \E now \in Clocks, ch \in LoadChoices :
           MainCall(set_datetime(now, ch[1], ch[2]), Call("set_datetime", now), "time_update")

\* line 526
MainTimeUpdate ==
    /\ pc = "time_update"
    /\ \E out \in UpdateChoices :
           MainCall(update_config(out), Call("update_config", <<>>), "close")

\* lines 530-539: decode both files, exit 1 when one cannot be decoded
MainImages ==
    /\ pc = "images"
    /\ IF args.first = BadFile \/ args.second = BadFile
       THEN Exit("exit_images", 1)
       ELSE pc' = "limit" /\ exitcode' = exitcode
    /\ UNCHANGED <<kbvars, args, usb, callvars>>

\* lines 541-543: the frame count limit
MainLimit ==
    /\ pc = "limit"
    /\ IF Len(args.first) + Len(args.second) > MaxTotalFrames
       THEN Exit("exit_limit", 1)
       ELSE pc' = "set_datetime" /\ exitcode' = exitcode
    /\ UNCHANGED <<kbvars, args, usb, callvars>>

\* line 547
MainSetDatetime ==
    /\ pc = "set_datetime"
    /\ \E now \in Clocks, ch \in LoadChoices :
           MainCall(set_datetime(now, ch[1], ch[2]), Call("set_datetime", now), "set_delay")

\* line 548
MainSetDelay ==
    /\ pc = "set_delay"
    /\ \E ch \in LoadChoices :
           MainCall(set_animation_delay(args.ms, ch[1], ch[2]),
                    Call("set_animation_delay", args.ms), "set_count")

\* line 549
MainSetCount ==
    /\ pc = "set_count"
    /\ \E ch \in LoadChoices :
           MainCall(set_frame_count(Len(args.first), Len(args.second), ch[1], ch[2]),
                    Call("set_frame_count", <<Len(args.first), Len(args.second)>>), "update")

\* line 550
MainUpdate ==
    /\ pc = "update"
    /\ \E out \in UpdateChoices :
           MainCall(update_config(out), Call("update_config", <<>>), "upload")

\* line 552
MainUpload ==
    /\ pc = "upload"
    /\ \E out \in UploadOutcomes(args.first, args.second) :
           MainCall(upload_frames(args.first, args.second, out),
                    Call("upload_frames", <<args.first, args.second>>), "close")

\* lines 521-522, 527-528, 554-556: keyboard.close(), then exit 0
MainClose ==
    /\ pc = "close"
    /\ usb' = "released"
    /\ Exit("exit_ok", 0)
    /\ UNCHANGED <<kbvars, args, callvars>>

NextMain ==
    \/ Connect
    \/ MainReset
    \/ MainTimeSet
    \/ MainTimeUpdate
    \/ MainImages
    \/ MainLimit
    \/ MainSetDatetime
    \/ MainSetDelay
    \/ MainSetCount
    \/ MainUpdate
    \/ MainUpload
    \/ MainClose

SpecMain == InitMain /\ [][NextMain]_vars


----------------------------------------------------------------------------
(* upload_frames, one command at a time, at the display's real size *)

DISPLAY_WIDTH == 240

DISPLAY_HEIGHT == 135

\* encode_frame, line 403: the alignment mask 0x7fff + 1
FrameBoundary == 32768

\* encode_frame, line 403: the length of one encoded frame (0x10000)
FrameBytes ==
    ((DISPLAY_WIDTH * DISPLAY_HEIGHT * 2 + FrameBoundary - 1) \div FrameBoundary) * FrameBoundary

\* frames of both animations together: the fewest (one each) and a count that
\* makes whole percentages fall on chunk ends
ProgressFrames == {2, 5}

\* the fewest, and the most main accepts
LimitFrames == {2, MaxTotalFrames}

RECURSIVE Gcd(_, _)
Gcd(a, b) == IF b = 0 THEN a ELSE Gcd(b, a % b)

\* line 447, int((pos / total) * 100), computed in double precision. The
\* rounded product is within 1e-13 of p * 100 / t, so its integer part is the
\* exact floor unless p * 100 / t is a whole number x: then it is x when p / t
\* is a binary fraction (quotient and product are exact), and x or x - 1
\* otherwise, as the two roundings fall.
ProgressValues(p, t) ==
    LET x == (p * 100) \div t
    IN  IF (p * 100) % t # 0 \/ (t \div Gcd(p, t)) \in {1, 2, 4} THEN {x} ELSE {x - 1, x}

\* lines 448-450 printing every percentage
Report_every(progress) == Append(printed, progress)

\* lines 448-450: the percentage is printed when it exceeds the last one
Report(progress) == IF progress > last_progress THEN Append(printed, progress) ELSE printed

\* the request of the chunk at position p of a stream of t bytes (black frames)
ChunkAt(p, t) == Cmd(33, Zeros(Min(MaxPayload, t - p)), p)

\* upload_frames is called with animations of args.frames frames in all
InitChunks(counts) ==
    /\ config = <<>>
    /\ config_needs_update = FALSE
    /\ sent = <<>>
    /\ rcvd = <<>>
    /\ ok = TRUE
    /\ lastOp = Call("init", <<>>)
    /\ loaded = <<>>
    /\ session = "closed"
    /\ pc = "begin"
    /\ \E n \in counts : args = [frames |-> n]
    /\ usb = "claimed"
    /\ exitcode = -1
    /\ NoCall

\* the commands of one step of upload_frames, their requests being frames,
\* end as out says: sent and rcvd hold the requests and answers of this step
Step(frames, out, next) ==
    LET r == Run(frames, [i \in 1..Len(frames) |-> ZeroResp], out)
    IN  /\ sent' = r.sent
        /\ rcvd' = r.rcvd
        /\ ok' = r.ok
        /\ session' = SessionAfter(session, r.sent)
        /\ pc' = IF r.ok THEN next ELSE "upload_failed"
        /\ UNCHANGED <<config, config_needs_update, loaded, synced, response, mainvars_but_pc>>

\* lines 428-442: the stream is encoded, 0x23 and 1 are sent, the loop is set up
UploadBegin ==
    /\ pc = "begin"
    /\ lastOp' = Call("upload_frames", args.frames)
    /\ \E out \in Outcomes(<< Cmd(35, <<>>, 0), Cmd(1, <<>>, 0) >>) :
           Step(RequestFrames(<< Cmd(35, <<>>, 0), Cmd(1, <<>>, 0) >>), out, "chunks")
    /\ stream_pos' = 0
    /\ stream_total' = args.frames * FrameBytes
    /\ last_progress' = -1
    /\ printed' = <<>>

\* lines 443-450: one turn of the chunk loop
UploadChunk ==
    /\ pc = "chunks"
    /\ LET size == Min(MaxPayload, stream_total - stream_pos)
           after == stream_pos + size
           frames == Tabulated(<< BuildFrame(ChunkAt(stream_pos, stream_total)) >>)
       IN  \E out \in Outcomes(<< ChunkAt(stream_pos, stream_total) >>) :
              /\ Step(frames, out, IF after < stream_total THEN "chunks" ELSE "commit")
              /\ IF out[2] = "ok"
                 THEN /\ stream_pos' = after
                      /\ \E progress \in ProgressValues(after, stream_total) :
                            /\ printed' = Report(progress)
                            /\ last_progress' = Max(progress, last_progress)
                 ELSE UNCHANGED <<stream_pos, last_progress, printed>>
    /\ UNCHANGED <<lastOp, stream_total>>

\* lines 451-453: the closing command 2
UploadCommit ==
    /\ pc = "commit"
    /\ \E out \in Outcomes(<< Cmd(2, <<>>, 0) >>) :
           Step(RequestFrames(<< Cmd(2, <<>>, 0) >>), out, "uploaded")
    /\ UNCHANGED <<lastOp, stream_pos, stream_total, last_progress, printed>>

NextChunks ==
    \/ UploadBegin
    \/ UploadChunk
    \/ UploadCommit

SpecChunks == InitChunks(ProgressFrames) /\ [][NextChunks]_vars

SpecOffsets == InitChunks(LimitFrames) /\ [][NextChunks]_vars

----------------------------------------------------------------------------
(* send_command, one transport call at a time *)

\* the reads of one call kept in response: the last MaxReads of them
MaxReads == 2

\* arguments send_command is called with: ids below, inside and above 1..255,
\* payloads up to one byte more than fits, offsets up to the largest 24-bit one
SendIds == {0, 33, 255, 256}

Bytes(n, k) == [i \in 1..n |-> (i * k) % 256]

SendPayloads == { <<>>, Zeros(4), Bytes(MaxPayload, 37), Bytes(MaxPayload + 1, 37) }

SendOffsets == {66051, 16777215}

SendCommands == { Cmd(id, p, o) : id \in SendIds, p \in SendPayloads, o \in SendOffsets }

\* blobs the Keyboard object may hold when update_config is called: no load
\* yields more than ConfigLen bytes, so these are assigned to Keyboard.config
\* from outside, one that just fits one request and one a byte too long
HeldBlobs == { Bytes(MaxPayload, 5), Bytes(MaxPayload + 1, 5) }

\* frames usb.read() may return while the answer to request frame f is awaited:
\* the answer (header echoed, payload from byte 4), the bare echoed header,
\* unrelated traffic, a frame with the marker and another checksum, a runt
Answers(f) ==
    { SubSeq(f, 1, 3) \o <<0>> \o p : p \in { ZeroResp, <<1, 2, 3, 4>> } }
    \cup { SubSeq(f, 1, 3) }

Strays(f) ==
    { <<1, 0, 0, 0, 0, 0, 0, 0>>,
      <<4, (f[2] + 1) % 256, f[3], 0, 9, 9, 9, 9>>,
      <<4, f[2]>> }

\* line 295 comparing the marker byte alone
Matches_markerOnly(resp, f) == SubSeq(resp, 1, Min(1, Len(resp))) = SubSeq(f, 1, 1)

\* line 295: response[0:3] == buffer[0:3]
Matches(resp, f) == SubSeq(resp, 1, Min(3, Len(resp))) = SubSeq(f, 1, 3)

\* line 296: response[4:]
ResponsePayload(resp) == SubSeq(resp, 5, Len(resp))

\* the last MaxReads reads of the call, resp the latest
Remember(reads, resp) ==
    LET all == Append(reads, resp)
    IN  SubSeq(all, Max(1, Len(all) - MaxReads + 1), Len(all))

\* a Keyboard on a claimed device holding a blob that waits to be written back
InitSend ==
    /\ config \in HeldBlobs
    /\ config_needs_update = TRUE
    /\ sent = <<>>
    /\ rcvd = <<>>
    /\ ok = TRUE
    /\ lastOp = Call("init", <<>>)
    /\ loaded = config
    /\ session = "closed"
    /\ pc = "idle"
    /\ args = <<>>
    /\ usb = "claimed"
    /\ exitcode = -1
    /\ NoCall

\* no send_command call is under way
SendIdle == pc \in {"idle", "returned", "invalid", "write_failed", "timed_out"}

\* send_command, lines 267-291: the argument checks, the frame, usb.write
SendCall ==
    /\ SendIdle
    /\ \E c \in SendCommands :
          /\ lastOp' = Call("send_command", c)
          /\ IF ~ValidCommand(c)
             THEN pc' = "invalid" /\ sent' = <<>>
             ELSE \/ pc' = "write_failed" /\ sent' = <<>>
                  \/ pc' = "read" /\ sent' = << BuildFrame(c) >>
    /\ rcvd' = <<>>
    /\ ok' = FALSE
    /\ response' = <<>>
    /\ session' = SessionAfter(session, sent')
    /\ UNCHANGED <<config, config_needs_update, loaded, synced, mainvars_but_pc,
                   stream_pos, stream_total, last_progress, printed>>

\* send_command, lines 293-296: one turn of the loop. usb.read() raises (a
\* timeout, a transport error) and the call ends with that exception, or it
\* returns a frame, which ends the call only if its header matches.
SendRead ==
    /\ pc = "read"
    /\ \/ /\ pc' = "timed_out"
          /\ UNCHANGED <<response, rcvd, ok>>
       \/ \E resp \in Answers(sent[1]) \cup Strays(sent[1]) :
             /\ response' = Remember(response, resp)
             /\ IF Matches(resp, sent[1])
                THEN pc' = "returned" /\ rcvd' = << ResponsePayload(resp) >> /\ ok' = TRUE
                ELSE pc' = "read" /\ UNCHANGED <<rcvd, ok>>
    /\ UNCHANGED <<config, config_needs_update, sent, lastOp, loaded, session, synced,
                   mainvars_but_pc, stream_pos, stream_total, last_progress, printed>>

\* update_config on the blob held
SendUpdate ==
    /\ SendIdle
    /\ \E out \in UpdateChoices : Apply(update_config(out), Call("update_config", <<>>))
    /\ pc' = "idle"
    /\ UNCHANGED mainvars_but_pc

NextSend ==
    \/ SendCall
    \/ SendRead
    \/ SendUpdate

SpecSend == InitSend /\ [][NextSend]_vars

\* usb.read() returns or raises within its timeout, so a waiting call takes
\* its next turn of the loop
SpecSendFair == SpecSend /\ WF_vars(SendRead)

----------------------------------------------------------------------------
(* Properties of the configuration store *)

Setters == {"set_datetime", "set_animation_delay", "set_frame_count"}

\* the commands 1, 6, 2 with blob as the whole payload of command 6 at offset 0
IsWriteBack(frames, blob) ==
    /\ FrameIds(frames) = <<1, 6, 2>>
    /\ FramePayload(frames[2]) = blob
    /\ FramePos(frames[2]) = 0

\* C1: update_config with the dirty flag clear sends nothing and leaves blob
\* and flag alone; with the flag set (and no command failing) it sends exactly
\* 1, 6 (the whole blob at offset 0), 2 and clears the flag; so an update_config
\* that directly follows a successful update_config sends nothing.
C1_CommitOnceOnly ==
    [][ lastOp'.op = "update_config" =>
          /\ ~config_needs_update =>
                /\ sent' = <<>> /\ ok'
                /\ config' = config /\ ~config_needs_update'
          /\ (config_needs_update /\ ok') =>
                /\ IsWriteBack(sent', config)
                /\ config' = config /\ ~config_needs_update'
          /\ (lastOp.op = "update_config" /\ ok) => sent' = <<>> ]_vars

\* a write-back has just been sent and the flag is clear
C1_Witness ==
    /\ lastOp.op = "update_config" /\ ok
    /\ Len(sent) = 3 /\ ~config_needs_update

\* the exact request sequence of load_config
IsLoadSequence(frames) ==
    /\ Len(frames) = 24
    /\ FrameId(frames[1]) = 1
    /\ \A i \in 2..10 :
          /\ FrameId(frames[i]) = 3
          /\ FramePayload(frames[i]) = <<0, 0, 0, 0>>
          /\ FramePos(frames[i]) = 4 * (i - 2)
    /\ FrameId(frames[11]) = 3
    /\ FramePayload(frames[11]) = <<0>>
    /\ FramePos(frames[11]) = 36
    /\ FrameId(frames[12]) = 2
    /\ \A i \in 13..24 :
          /\ FrameId(frames[i]) = 5
          /\ FramePayload(frames[i]) = <<0, 0, 0, 0>>
          /\ FramePos(frames[i]) = 4 * (i - 13)

\* C2: a load_config that returns has sent exactly 1, nine probes (3, four zero
\* bytes, offsets 0..32), one probe (3, one zero byte, offset 36), 2 and twelve
\* reads (5, four zero bytes, offsets 0..44); the blob is then the twelve
\* 4-byte answers to the reads in order, 48 bytes, and the dirty flag is clear.
C2_LoadSequence ==
    (lastOp.op = "load_config" /\ ok) =>
        /\ IsLoadSequence(sent)
        /\ Len(rcvd) = 24
        /\ \A i \in 13..24 : Len(rcvd[i]) = 4
        /\ config = rcvd[13] \o rcvd[14] \o rcvd[15] \o rcvd[16] \o rcvd[17] \o rcvd[18]
                    \o rcvd[19] \o rcvd[20] \o rcvd[21] \o rcvd[22] \o rcvd[23] \o rcvd[24]
        /\ Len(config) = 48
        /\ ~config_needs_update

\* a load has returned a blob whose bytes are not all alike
C2_Witness ==
    /\ lastOp.op = "load_config" /\ ok
    /\ Len(config) = 48 /\ config[1] # config[48]

\* C8: an update_config that fails with the dirty flag set leaves the flag set
\* and the blob unchanged, and an update_config that then succeeds sends the
\* whole write-back 1, 6 (blob), 2.
C8_FailedCommitStaysDirty ==
    [][ lastOp'.op = "update_config" =>
          /\ (config_needs_update /\ ~ok') => (config_needs_update' /\ config' = config)
          /\ (lastOp.op = "update_config" /\ ~ok /\ ok') => IsWriteBack(sent', config) ]_vars

\* update_config has failed at command 6 or at command 2
C8_Witness ==
    /\ lastOp.op = "update_config" /\ ~ok
    /\ Len(sent) >= 2 /\ config_needs_update

\* the offsets (0-based) the setters own
ClockOffsets == 35..41

DelayOffsets == {43, 44}

CountOffsets == {34, 46}

OwnedOffsets == ClockOffsets \cup DelayOffsets \cup CountOffsets

\* a and b are equally long and agree at every offset outside owned
SameOutside(a, b, owned) ==
    /\ Len(a) = Len(b)
    /\ \A i \in 0..(Len(a) - 1) : i \notin owned => a[i + 1] = b[i + 1]

\* C9: the blob held is as long as the blob last loaded (48 bytes) and equals
\* it at every offset but 34, 35..41, 43..44 and 46; each setter changes only
\* its own offsets; and the payload of every command 6 is exactly the blob.
C9_ReadModifyWrite ==
    [][ /\ config' # <<>> => (Len(config') = 48 /\ SameOutside(config', loaded', OwnedOffsets))
        /\ (config # <<>> /\ lastOp'.op = "set_datetime") => SameOutside(config', config, ClockOffsets)
        /\ (config # <<>> /\ lastOp'.op = "set_animation_delay") => SameOutside(config', config, DelayOffsets)
        /\ (config # <<>> /\ lastOp'.op = "set_frame_count") => SameOutside(config', config, CountOffsets)
        /\ \A i \in 1..Len(sent') : FrameId(sent'[i]) = 6 => FramePayload(sent'[i]) = config' ]_vars

\* a loaded blob changed by all three setters has been written back
C9_Witness ==
    /\ lastOp.op = "update_config" /\ ok /\ Len(sent) = 3
    /\ loaded \in DeviceBlobs
    /\ config[35] # loaded[35] /\ config[36] # loaded[36] /\ config[44] # loaded[44]

\* C10: a setter called with no blob held writes a byte only after one complete
\* load_config sequence; called with a blob held it sends nothing; and when it
\* returns the dirty flag is set.
C10_SetterLoadsFirst ==
    [][ lastOp'.op \in Setters =>
          /\ (config = <<>> /\ (ok' \/ config' # <<>>)) => IsLoadSequence(sent')
          /\ config # <<>> => sent' = <<>>
          /\ ok' => config_needs_update' ]_vars

\* a setter has run a whole load and then set its bytes
C10_Witness ==
    /\ lastOp.op = "set_animation_delay" /\ ok
    /\ Len(sent) = 24 /\ config_needs_update


----------------------------------------------------------------------------
(* Properties of the upload sequencer *)

IsChunk(f) == FrameId(f) = 33

\* the 0x21 requests of the last operation, in send order
Chunks == SelectSeq(sent, IsChunk)

ChunkPayloads == [i \in 1..Len(Chunks) |-> FramePayload(Chunks[i])]

ChunkLens == [i \in 1..Len(Chunks) |-> Len(ChunkPayloads[i])]

\* the stream the last upload_frames call was given
LastStream == UploadData(lastOp.arg[1], lastOp.arg[2])

\* C3: a completed upload has cut its stream into 0x21 chunks of at most 56
\* bytes, all but the last of exactly 56; each chunk's offset is the sum of the
\* lengths of the chunks before it; the last chunk has stream length mod 56
\* bytes, or 56 when that is 0; and the payloads in send order are the stream.
C3_Chunking ==
    (lastOp.op = "upload_frames" /\ ok) =>
        LET n == Len(Chunks)
            total == Len(LastStream)
        IN  /\ total > 0 /\ n > 0
            /\ \A i \in 1..n :
                  /\ ChunkLens[i] <= 56
                  /\ i < n => ChunkLens[i] = 56
                  /\ FramePos(Chunks[i]) = SumTo(ChunkLens, i - 1)
            /\ ChunkLens[n] = (IF total % 56 = 0 THEN 56 ELSE total % 56)
            /\ Flatten(ChunkPayloads) = LastStream

\* an upload of several chunks has completed, its last chunk a short one that
\* starts past the first frame
C3_Witness ==
    /\ lastOp.op = "upload_frames" /\ ok
    /\ Len(Chunks) >= 2
    /\ ChunkLens[Len(Chunks)] < 56
    /\ FramePos(Chunks[Len(Chunks)]) >= FrameSize

\* C4: a completed upload has sent 0x23, then 1, then only 0x21 chunks, then
\* one command 2 as its last command; the chunk bytes are all of the first
\* animation's encoded frames followed by all of the second's; and in no
\* upload, completed or not, is a chunk sent before command 1 or after a 2.
C4_UploadOrder ==
    lastOp.op = "upload_frames" =>
        /\ \A i \in 1..Len(sent) : IsChunk(sent[i]) =>
              /\ i > 2 /\ FrameId(sent[1]) = 35 /\ FrameId(sent[2]) = 1
              /\ \A j \in 1..(i - 1) : FrameId(sent[j]) # 2
        /\ ok =>
              LET n == Len(sent)
                  a == EncodeAll(lastOp.arg[1])
                  b == EncodeAll(lastOp.arg[2])
                  bytes == Flatten(ChunkPayloads)
              IN  /\ n >= 4
                  /\ FrameId(sent[1]) = 35
                  /\ FrameId(sent[2]) = 1
                  /\ \A i \in 3..(n - 1) : IsChunk(sent[i])
                  /\ FrameId(sent[n]) = 2
                  /\ Len(bytes) = Len(a) + Len(b)
                  /\ SubSeq(bytes, 1, Len(a)) = a
                  /\ SubSeq(bytes, Len(a) + 1, Len(a) + Len(b)) = b

\* a completed upload of two different animations whose boundary falls inside
\* a chunk
C4_Witness ==
    /\ lastOp.op = "upload_frames" /\ ok
    /\ EncodeAll(lastOp.arg[1]) # EncodeAll(lastOp.arg[2])
    /\ Len(EncodeAll(lastOp.arg[1])) % 56 # 0
    /\ Len(Chunks) >= 2


----------------------------------------------------------------------------
(* Properties of the session bracket and of main() *)

IsBracket(f) == FrameId(f) \in {1, 2}

\* the commands 1 and 2 among frames, in send order
Brackets(frames) == FrameIds(SelectSeq(frames, IsBracket))

\* b alternates 1, 2, 1, 2, ... from a bracket in state s
AlternatesFrom(s, b) ==
    \A i \in 1..Len(b) : b[i] = (IF (i % 2 = 1) = (s = "closed") THEN 1 ELSE 2)

Exited == pc \in {"exit_ok", "exit_connect", "exit_images", "exit_limit", "exit_crash"}

\* C6: when the process ends after the device was claimed, close() has run.
C6_ReleasedOnEveryExit == (Exited /\ usb # "absent") => usb = "released"

\* C7: a run whose animations have more than 90 frames in all exits with code 1
\* with no connection made, no command written and no blob committed.
C7_RejectedBeforeDevice ==
    (Exited /\ ~args.reset /\ ~args.time_only
        /\ args.first # BadFile /\ args.second # BadFile
        /\ Len(args.first) + Len(args.second) > 90)
    => (exitcode = 1 /\ usb = "absent" /\ sent = <<>> /\ config = <<>>)

\* the byte with the tens digit of n in its high and the units in its low nibble
Bcd(n) == CHOOSE b \in 0..255 : b \div 16 = n \div 10 /\ b % 16 = n % 10

\* the seven clock bytes of the time now
ClockBytes(now) ==
    << Bcd(now.second), Bcd(now.minute), Bcd(now.hour), now.weekday,
       Bcd(now.day), Bcd(now.month), Bcd(now.year - 2000) >>

\* C14: a reset that returns, whatever blob and flag it started with, has sent
\* exactly the commands 1, 6, 2, 0x23, 1, 2; the payload of command 6 is the
\* 48-byte factory blob with the clock bytes set to the current time, the
\* delay set to 100 ms and both frame counts set to 0; and the dirty flag is
\* clear afterwards.
C14_ResetSequence ==
    (lastOp.op = "reset" /\ ok) =>
        LET p == FramePayload(sent[2])
        IN  /\ FrameIds(sent) = <<1, 6, 2, 35, 1, 2>>
            /\ Len(p) = 48
            /\ \A i \in 0..47 : i \notin OwnedOffsets => p[i + 1] = FactoryConfig[i + 1]
            /\ SubSeq(p, 36, 42) = ClockBytes(lastOp.arg)
            /\ p[44] = 100 /\ p[45] = 0
            /\ p[35] = 0 /\ p[47] = 0
            /\ config = p
            /\ ~config_needs_update

\* a reset has returned with the clock of 23:07:59 written
C14_Witness ==
    /\ lastOp.op = "reset" /\ ok
    /\ Len(sent) = 6
    /\ config[36] = 89 /\ config[38] = 35

\* C15: set_animation_delay(ms) stores max(60, min(ms, 65535)) at the delay
\* offset, low byte first, for every integer ms: the stored value lies in
\* 60..65535; 10 is stored as 60, 70000 as 65535 and 1000 as 1000.
C15_DelayClamp ==
    (lastOp.op = "set_animation_delay" /\ ok) =>
        LET ms == lastOp.arg
            stored == config[DELAY_OFFSET + 1] + 256 * config[DELAY_OFFSET + 2]
        IN  /\ config[DELAY_OFFSET + 1] \in 0..255
            /\ config[DELAY_OFFSET + 2] \in 0..255
            /\ stored = (IF ms < 60 THEN 60 ELSE IF ms > 65535 THEN 65535 ELSE ms)
            /\ 60 <= stored /\ stored <= 65535
            /\ ms = 10 => stored = 60
            /\ ms = 70000 => stored = 65535
            /\ ms = 1000 => stored = 1000

\* a delay of 1000 ms has been stored as the bytes 232, 3
C15_Witness ==
    /\ lastOp.op = "set_animation_delay" /\ ok
    /\ lastOp.arg = 1000
    /\ config[DELAY_OFFSET + 1] = 232 /\ config[DELAY_OFFSET + 2] = 3

\* the number of commands an operation sends when none of them fails
FullLength(call) ==
    CASE call.op = "load_config" -> 24
      [] call.op = "update_config" -> 3
      [] call.op = "reset" -> 6
      [] call.op = "upload_frames" ->
             3 + ((Len(call.arg[1]) + Len(call.arg[2])) * FrameSize + 55) \div 56

\* C17: when a command fails in load_config, update_config, upload_frames or
\* reset, nothing is written after the failing command: the commands written
\* are the answered ones and at most the failing one, fewer than the whole
\* operation, and in update_config and upload_frames a command 2 is written
\* only as the failing command itself. An upload_frames after a failed one
\* starts over: 0x23 first, the first chunk at offset 0, and the whole stream
\* when it completes.
C17_FailurePropagates ==
    [][ /\ (lastOp'.op \in {"load_config", "update_config", "upload_frames", "reset"} /\ ~ok') =>
              /\ Len(sent') <= Len(rcvd') + 1
              /\ Len(rcvd') < FullLength(lastOp')
              /\ Len(sent') <= FullLength(lastOp')
              /\ lastOp'.op \in {"update_config", "upload_frames"} =>
                    \A i \in 1..Len(sent') :
                        FrameId(sent'[i]) = 2 => (i = FullLength(lastOp') /\ i = Len(rcvd') + 1)
              /\ lastOp'.op = "upload_frames" =>
                    \A i \in 1..Len(Chunks') : FramePos(Chunks'[i]) = 56 * (i - 1)
        /\ (lastOp.op = "upload_frames" /\ ~ok /\ lastOp'.op = "upload_frames") =>
              /\ sent' # <<>> => FrameId(sent'[1]) = 35
              /\ Chunks' # <<>> => FramePos(Chunks'[1]) = 0
              /\ ok' => /\ Len(sent') = FullLength(lastOp')
                        /\ Flatten(ChunkPayloads') = UploadData(lastOp'.arg[1], lastOp'.arg[2]) ]_vars

\* an upload has failed at its first chunk, written but not answered, with a
\* chunk and the closing command 2 left unsent
C17_Witness ==
    /\ lastOp.op = "upload_frames" /\ ~ok
    /\ Len(sent) = 3 /\ Len(rcvd) = 2
    /\ Len(Chunks) = 1
    /\ FullLength(lastOp) = 5

\* C19: whenever the blob held differs from the blob most recently loaded from
\* or written back to the device, the dirty flag is set; also after a setter
\* that has failed.
C19_UnsyncedIsDirty == config # synced => config_needs_update


----------------------------------------------------------------------------
(* Properties of send_command *)

\* the frame the last usb.read() of the call returned
LastRead == response[Len(response)]

\* bytes 0..2 of frame a are there and equal bytes 0..2 of frame b
SameHeader(a, b) == Len(a) >= 3 /\ a[1] = b[1] /\ a[2] = b[2] /\ a[3] = b[3]

\* bytes 4 onward of a frame
FromByte4(f) == [i \in 1..(Len(f) - 4) |-> f[i + 4]]

\* C11: send_command returns only on a response frame whose first three bytes
\* equal those of the request it wrote, and returns bytes 4 onward of that
\* frame; a frame read whose first three bytes differ neither ends the call
\* nor changes what will be returned; and the request is written once only.
C11_ReturnsOnMatchOnly ==
    [][ pc = "read" =>
          /\ sent' = sent
          /\ pc' = "returned" =>
                /\ response' # <<>>
                /\ SameHeader(LastRead', sent[1])
                /\ rcvd' = << FromByte4(LastRead') >>
          /\ (response' # response /\ ~SameHeader(LastRead', sent[1])) =>
                (pc' = "read" /\ rcvd' = rcvd /\ ok' = ok) ]_vars

\* a call has returned a 4-byte payload after discarding a frame that carried
\* the marker and another checksum
C11_Witness ==
    /\ pc = "returned"
    /\ Len(response) = 2
    /\ response[1][1] = 4 /\ ~SameHeader(response[1], sent[1])
    /\ rcvd = << <<1, 2, 3, 4>> >>

\* the preconditions of send_command
InRange(c) == 1 <= c.id /\ c.id <= 255 /\ Len(c.data) <= 56

\* C12: send_command called with an id outside 1..255 or a payload of more
\* than 56 bytes fails before anything is written or read, blob and dirty flag
\* unchanged; and update_config on a blob of more than 56 bytes fails at
\* command 6: no command 6 is written, blob and flag stay as they were.
C12_InvalidBeforeTransport ==
    [][ SendIdle =>
          /\ (lastOp'.op = "send_command" /\ ~InRange(lastOp'.arg)) =>
                /\ pc' = "invalid" /\ ~ok'
                /\ sent' = <<>> /\ rcvd' = <<>> /\ response' = <<>>
                /\ config' = config /\ config_needs_update' = config_needs_update
          /\ (lastOp'.op = "update_config" /\ config_needs_update /\ Len(config) > 56) =>
                /\ ~ok'
                /\ Len(sent') <= 1 /\ Len(rcvd') <= 1
                /\ \A i \in 1..Len(sent') : FrameId(sent'[i]) = 1
                /\ config' = config /\ config_needs_update' ]_vars

\* update_config on a 57-byte blob has stopped after command 1 was answered
C12_Witness ==
    /\ lastOp.op = "update_config" /\ ~ok
    /\ Len(config) = 57 /\ config_needs_update
    /\ FrameIds(sent) = <<1>> /\ Len(rcvd) = 1

\* the checksum stored in frame f
StoredChecksum(f) == f[2] + 256 * f[3]

\* payload p with its byte i (1-based) replaced by v
Corrupt(p, i, v) == [p EXCEPT ![i] = v]

\* C13: the request frame of a command with id in 1..255, at most 56 payload
\* bytes and a 24-bit offset is 64 bytes long, with byte 0 = 4, byte 3 = id,
\* byte 4 = payload length, bytes 5..7 = the offset little-endian, the payload
\* from byte 8 padded with zeros, and bytes 1..2 = the sum of bytes 3..63
\* modulo 65536, little-endian; and the frame of the same command with any one
\* payload byte changed to another value stores another checksum.
C13_ChecksumLaw ==
    (lastOp.op = "send_command" /\ sent # <<>>) =>
        LET c == lastOp.arg
            f == sent[1]
            n == Len(c.data)
        IN  /\ InRange(c) /\ c.pos < 16777216
            /\ Len(f) = 64
            /\ \A i \in 1..64 : f[i] \in 0..255
            /\ f[1] = 4 /\ f[4] = c.id /\ f[5] = n
            /\ f[6] + 256 * f[7] + 65536 * f[8] = c.pos
            /\ \A i \in 1..n : f[8 + i] = c.data[i]
            /\ \A i \in (9 + n)..64 : f[i] = 0
            /\ StoredChecksum(f) = (SumTo(f, 64) - f[1] - f[2] - f[3]) % 65536
            /\ (pc = "read" /\ response = <<>>) =>
                  \A i \in 1..n : \A v \in 0..255 :
                      v # c.data[i] =>
                          StoredChecksum(BuildFrame(Cmd(c.id, Corrupt(c.data, i, v), c.pos)))
                              # StoredChecksum(f)

\* a frame with a full payload, the largest offset and a checksum that needs
\* both of its bytes has been written
C13_Witness ==
    /\ lastOp.op = "send_command" /\ pc = "read"
    /\ Len(lastOp.arg.data) = 56 /\ lastOp.arg.pos = 16777215
    /\ sent[1][3] > 0

\* C16: every send_command call ends: the request is written once, a read
\* that times out ends the call at once, and a call that waits for its answer
\* does not wait forever, whatever the device sends.
C16_SendTerminates ==
    /\ [][ pc = "read" => (sent' = sent /\ pc' \in {"read", "returned", "timed_out"}) ]_vars
    /\ (pc = "read") ~> (pc # "read")


----------------------------------------------------------------------------
(* Properties of the chunk loop at the display's real size *)

\* C18: the percentages printed during upload_frames are whole numbers in
\* 0..100 in strictly increasing order, so none is printed twice; each is the
\* integer part of bytes sent * 100 / stream length after the chunk it is
\* printed for; and when the last chunk has been sent the last one is 100.
C18_ProgressIncreases ==
    [][ /\ \A i \in 1..Len(printed') : printed'[i] \in 0..100
        /\ \A i \in 1..(Len(printed') - 1) : printed'[i] < printed'[i + 1]
        /\ printed' # printed =>
              printed' = Append(printed, (stream_pos' * 100) \div stream_total')
        /\ pc' \in {"commit", "uploaded"} =>
              (printed' # <<>> /\ printed'[Len(printed')] = 100) ]_vars

\* an upload of five frames, 5852 chunks, has completed with every percentage
\* from 0 to 100 printed once
C18_Witness ==
    /\ pc = "uploaded"
    /\ args.frames = 5
    /\ Len(printed) = 101
    /\ printed[1] = 0 /\ printed[36] = 35

\* C20: in an upload of at most 90 frames of 0x10000 bytes every chunk is sent
\* at an offset below 2^24, bytes 5..7 of its request frame hold that offset
\* whole, and the offset encoded in a chunk is above the one encoded in the
\* chunk before it, so no two chunks of the upload carry the same.
C20_OffsetsFit ==
    [][ (pc = "chunks" /\ sent' # <<>> /\ args.frames <= 90) =>
          LET f == sent'[1]
          IN  /\ stream_total = args.frames * 65536
              /\ stream_pos < 16777216
              /\ FrameId(f) = 33
              /\ f[6] + 256 * f[7] + 65536 * f[8] = stream_pos
              /\ (sent # <<>> /\ FrameId(sent[Len(sent)]) = 33) =>
                    FramePos(sent[Len(sent)]) < FramePos(f) ]_vars

\* in a 90-frame upload a chunk has been sent whose offset needs the third
\* offset byte
C20_Witness ==
    /\ pc = "chunks"
    /\ args.frames = 90
    /\ stream_pos > 65536
    /\ FrameId(sent[1]) = 33 /\ sent[1][8] = 1

====
